---- MODULE Spec2Model ----
(***************************************************************************)
(* Model of novatel_oem7_driver::INSHandler (ins_handler.cpp).             *)
(*                                                                         *)
(* The handler caches the latest INSPVA, CORRIMU and INSSTDEV messages,    *)
(* republishes CORRIMU / INSSTDEV / INSPVAX / INSCONFIG, composes a        *)
(* sensor_msgs::Imu message on every CORRIMU arrival and resolves the IMU  *)
(* rate from the "supported_imus" parameter table.                         *)
(*                                                                         *)
(* Number representation (the C++ code uses double):                       *)
(*   - angles are degrees, restricted to multiples of 180 so that the      *)
(*     quaternion computed by tf2::Quaternion::setRPY is integer valued;   *)
(*   - standard deviations are in tenths, orientation covariance in        *)
(*     hundredths (0.1 -> 1, 0.1^2 = 0.01 -> 1);                           *)
(*   - angular/linear covariance entries are in units of 1e-3.             *)
(***************************************************************************)
EXTENDS Integers, Sequences, FiniteSets, TLC

\* ------------------------------------------------------------------------
\* Bounds of the model
\* ------------------------------------------------------------------------

\* Number of automatic rate resolutions followed in one behaviour.
MaxLookups == 2

\* ------------------------------------------------------------------------
\* Program constants
\* ------------------------------------------------------------------------

\* const double DATA_NOT_AVAILABLE = -1.0, in units of 1e-3.
DATA_NOT_AVAILABLE == -1000

\* The literal 1e-3 written to the six motion covariance entries, in units of 1e-3.
COV_FIXED == 1

\* Largest value of the C++ type int (32 bit), the result type of std::stoi.
INT_MAX == 2147483647

\* The null value of a boost::shared_ptr.
NULL == [null |-> TRUE]

\* No message has been handled yet.
NoMsg == [id |-> "none", body |-> NULL]

\* The "imu_rate" parameter is not set on the parameter server.
Absent == [present |-> FALSE, value |-> 0]

\* The "imu_rate" parameter is set to the integer v.
Param(v) == [present |-> TRUE, value |-> v]

\* The message ids the handler subscribes to, in the order of MSG_IDS.
getMessageIds ==
  << "CORRIMUS_OEM7_MSGID",
     "IMURATECORRIMUS_OEM7_MSGID",
     "INSPVAS_OEM7_MSGID",
     "INSPVAX_OEM7_MSGID",
     "INSSTDEV_OEM7_MSGID",
     "INSCONFIG_OEM7_MSGID" >>

\* Ids of receiver messages that other handlers of the driver subscribe to.
OtherIds == { "BESTPOS_OEM7_MSGID" }

Range(s) == { s[i] : i \in DOMAIN s }

\* The five publishers of the handler, by topic key.
Channels == { "IMU", "CORRIMU", "INSSTDEV", "INSPVAX", "INSCONFIG" }

\* ------------------------------------------------------------------------
\* Inputs: decoded receiver messages (small representative sets)
\* ------------------------------------------------------------------------

InsPvaBodies ==
  { [roll |-> 0,   pitch |-> 0,   azimuth |-> 0],
    [roll |-> 180, pitch |-> 0,   azimuth |-> 180] }

CorrImuBodies ==
  { [pitch_rate |-> 1, roll_rate |-> 2, yaw_rate |-> 3,
     lateral_acc |-> 4, longitudinal_acc |-> 5, vertical_acc |-> 6],
    [pitch_rate |-> 0, roll_rate |-> 0, yaw_rate |-> 0,
     lateral_acc |-> 0, longitudinal_acc |-> 0, vertical_acc |-> 0] }

InsStdevBodies ==
  { [pitch_stdev |-> 1, roll_stdev |-> 2, azimuth_stdev |-> 3],
    [pitch_stdev |-> 3, roll_stdev |-> 1, azimuth_stdev |-> 2] }

ImuTypes == 0 .. 3

InsConfigBodies == { [imu_type |-> t] : t \in ImuTypes }

InsPvaxBodies ==
  { [latitude_stdev |-> 1, longitude_stdev |-> 2],
    [latitude_stdev |-> 5, longitude_stdev |-> 7] }

\* Values of the "imu_rate" parameter (the user rate override).
OverrideValues == { Absent, Param(0), Param(-1), Param(200) }

\* The "supported_imus/<type>/{name,rate}" parameters: strings, held as
\* sequences of characters.  IMU type 0 (IMU_TYPE_UNKNOWN) has no entry.
supported_imus ==
  [ t \in {1, 2, 3} |->
      CASE t = 1 -> [name |-> <<"A">>, rate |-> <<"1", "0", "0">>]
        [] t = 2 -> [name |-> <<"B">>, rate |-> <<"0">>]
        [] t = 3 -> [name |-> <<"C">>, rate |-> <<" ", "-", "5", "x">>] ]

\* ------------------------------------------------------------------------
\* Pure helpers
\* ------------------------------------------------------------------------

DigitVal(c) ==
  CASE c = "0" -> 0 [] c = "1" -> 1 [] c = "2" -> 2 [] c = "3" -> 3
    [] c = "4" -> 4 [] c = "5" -> 5 [] c = "6" -> 6 [] c = "7" -> 7
    [] c = "8" -> 8 [] c = "9" -> 9

IsDigit(c) == c \in { "0", "1", "2", "3", "4", "5", "6", "7", "8", "9" }

IsSpace(c) == c \in { " ", "\t", "\n" }

RECURSIVE SkipSpace(_)
SkipSpace(s) ==
  IF s # <<>> /\ IsSpace(Head(s)) THEN SkipSpace(Tail(s)) ELSE s

\* The longest prefix of s made of digits.
RECURSIVE DigitPrefix(_)
DigitPrefix(s) ==
  IF s # <<>> /\ IsDigit(Head(s)) THEN <<Head(s)>> \o DigitPrefix(Tail(s)) ELSE <<>>

RECURSIVE DigitsValue(_, _)
DigitsValue(s, acc) ==
  IF s = <<>> THEN acc ELSE DigitsValue(Tail(s), 10 * acc + DigitVal(Head(s)))

\* std::stoi(str): skips white space, takes an optional sign and the longest
\* run of digits; throws std::invalid_argument when there is no digit and
\* std::out_of_range when the value does not fit an int.
stoi(str) ==
  LET t      == SkipSpace(str)
      signed == t # <<>> /\ Head(t) \in { "+", "-" }
      neg    == t # <<>> /\ Head(t) = "-"
      d      == DigitPrefix(IF signed THEN Tail(t) ELSE t)
      v      == IF neg THEN 0 - DigitsValue(d, 0) ELSE DigitsValue(d, 0)
  IN  IF d = <<>> THEN [exc |-> "invalid_argument", val |-> 0]
      ELSE IF v > INT_MAX \/ v < 0 - INT_MAX - 1
           THEN [exc |-> "out_of_range", val |-> 0]
           ELSE [exc |-> "none", val |-> v]

\* degreesToRadians, in units of pi (degrees are multiples of 180).
degreesToRadians(degrees) == degrees \div 180

\* cos and sin of half an angle given in units of pi.
CosHalf(a) == CASE a % 4 = 0 -> 1 [] a % 4 = 1 -> 0 [] a % 4 = 2 -> -1 [] a % 4 = 3 -> 0
SinHalf(a) == CASE a % 4 = 0 -> 0 [] a % 4 = 1 -> 1 [] a % 4 = 2 -> 0 [] a % 4 = 3 -> -1

\* tf2::Quaternion::setRPY(roll, pitch, yaw) followed by tf2::toMsg.
setRPY(roll, pitch, yaw) ==
  LET cr == CosHalf(roll)   sr == SinHalf(roll)
      cp == CosHalf(pitch)  sp == SinHalf(pitch)
      cy == CosHalf(yaw)    sy == SinHalf(yaw)
  IN  [ x |-> sr * cp * cy - cr * sp * sy,
        y |-> cr * sp * cy + sr * cp * sy,
        z |-> cr * cp * sy - sr * sp * cy,
        w |-> cr * cp * cy + sr * sp * sy ]

Zero9 == << 0, 0, 0, 0, 0, 0, 0, 0, 0 >>

\* A default constructed sensor_msgs::Imu.  Covariance arrays are indexed
\* from 1 here: C++ index i is index i + 1.
NewImu ==
  [ orientation                    |-> [x |-> 0, y |-> 0, z |-> 0, w |-> 0],
    orientation_covariance         |-> Zero9,
    angular_velocity               |-> [x |-> 0, y |-> 0, z |-> 0],
    angular_velocity_covariance    |-> Zero9,
    linear_acceleration            |-> [x |-> 0, y |-> 0, z |-> 0],
    linear_acceleration_covariance |-> Zero9 ]

\* MakeROSMessage: the ROS message decoded from a raw receiver message.
MakeROSMessage(msg) == msg.body

\* Oem7RosPublisher::publish: the messages put on a channel by one call.
Publish(en, chan, m) ==
  IF en[chan] THEN << [chan |-> chan, msg |-> m] >> ELSE << >>

\* Oem7RosPublisher::isEnabled.
isEnabled(en, chan) == en[chan]

\* ------------------------------------------------------------------------
\* The methods of INSHandler, as functions of the fields they read
\* ------------------------------------------------------------------------

\* getImuParam: reads supported_imus/<imu_type>/<name> into param, which the
\* caller passes in empty; param is left untouched when the parameter is
\* missing, and the miss is logged at fatal level.
getImuParam(imu_type, name) ==
  IF imu_type \in DOMAIN supported_imus
  THEN [param |-> supported_imus[imu_type][name], log |-> << >>]
  ELSE [param |-> << >>, log |-> << "FATAL_IMU_NOT_SUPPORTED" >>]

\* getImuRate: std::stoi of the "rate" parameter.
getImuRate(imu_type) ==
  LET p == getImuParam(imu_type, "rate")
      r == stoi(p.param)
  IN  [exc |-> r.exc, val |-> r.val, log |-> p.log]

\* getImuDescription: the "name" parameter.
getImuDescription(imu_type) == getImuParam(imu_type, "name")

\* Lines 126-134 of processInsConfigMsg: the automatic rate resolution, given
\* the messages pub already published.  looked tells that the resolution ran;
\* exc is the exception that leaves the method, "none" when it returns.
resolveImuRate(insconfig, pub, rate) ==
  LET desc == getImuDescription(insconfig.imu_type)
      r    == getImuRate(insconfig.imu_type)
  IN  IF r.exc # "none"
      THEN [out |-> pub, log |-> desc.log \o r.log, imu_rate |-> rate,
            exc |-> r.exc, looked |-> TRUE]
      ELSE [out |-> pub,
            log |-> desc.log \o r.log \o
                    << IF r.val = 0 THEN "ERROR_IMU_RATE" ELSE "INFO_IMU_RATE" >>,
            imu_rate |-> r.val, exc |-> "none", looked |-> TRUE]

\* processInsConfigMsg without the resolution.
passInsConfig(pub, rate) ==
  [out |-> pub, log |-> << >>, imu_rate |-> rate, exc |-> "none", looked |-> FALSE]

\* Mutant: the guard of the resolution written imu_rate_ >= 0.
processInsConfigMsg_GuardGE(en, rate, msg) ==
  LET insconfig == MakeROSMessage(msg)
      pub       == Publish(en, "INSCONFIG", insconfig)
  IN  IF rate >= 0 THEN resolveImuRate(insconfig, pub, rate) ELSE passInsConfig(pub, rate)

\* Mutant: the resolution runs on every INSCONFIG message.
processInsConfigMsg_NoGuard(en, rate, msg) ==
  LET insconfig == MakeROSMessage(msg)
      pub       == Publish(en, "INSCONFIG", insconfig)
  IN  resolveImuRate(insconfig, pub, rate)

\* Mutant: the guard of the resolution inverted (imu_rate_ != 0).
processInsConfigMsg_GuardInverted(en, rate, msg) ==
  LET insconfig == MakeROSMessage(msg)
      pub       == Publish(en, "INSCONFIG", insconfig)
  IN  IF rate # 0 THEN resolveImuRate(insconfig, pub, rate) ELSE passInsConfig(pub, rate)

\* processInsConfigMsg: the INSCONFIG passthrough, then the rate resolution
\* while imu_rate_ is 0.
processInsConfigMsg(en, rate, msg) ==
  LET insconfig == MakeROSMessage(msg)
      pub       == Publish(en, "INSCONFIG", insconfig)
  IN  IF rate = 0 THEN resolveImuRate(insconfig, pub, rate) ELSE passInsConfig(pub, rate)

\* Mutant: INSPVAX published through insconfig_pub_.
publishInsPVAXMsg_WrongPublisher(en, msg) == Publish(en, "INSCONFIG", MakeROSMessage(msg))

\* publishInsPVAXMsg.
publishInsPVAXMsg(en, msg) == Publish(en, "INSPVAX", MakeROSMessage(msg))

\* publishCorrImuMsg: stores the message in corrimu_ and publishes it.
publishCorrImuMsg(en, msg) ==
  LET c == MakeROSMessage(msg)
  IN  [corrimu |-> c, out |-> Publish(en, "CORRIMU", c)]

\* publishInsStDevMsg: stores the message in insstdev_ and publishes it.
publishInsStDevMsg(en, msg) ==
  LET s == MakeROSMessage(msg)
  IN  [insstdev |-> s, out |-> Publish(en, "INSSTDEV", s)]

\* Lines 162-170: the orientation from the cached INSPVA.
ImuOrientation(imu, pva) ==
  [imu EXCEPT !.orientation =
     setRPY(degreesToRadians(pva.roll),
            0 - degreesToRadians(pva.pitch),
            0 - degreesToRadians(pva.azimuth))]

\* Mutant: the variances placed in roll, pitch, azimuth order.
ImuOrientationCovariance_RollFirst(imu, std) ==
  IF std # NULL
  THEN [imu EXCEPT !.orientation_covariance[1] = std.roll_stdev * std.roll_stdev,
                   !.orientation_covariance[5] = std.pitch_stdev * std.pitch_stdev,
                   !.orientation_covariance[9] = std.azimuth_stdev * std.azimuth_stdev]
  ELSE imu

\* Lines 177-182: the orientation covariance from the cached INSSTDEV.
ImuOrientationCovariance(imu, std) ==
  IF std # NULL
  THEN [imu EXCEPT !.orientation_covariance[1] = std.pitch_stdev * std.pitch_stdev,
                   !.orientation_covariance[5] = std.roll_stdev * std.roll_stdev,
                   !.orientation_covariance[9] = std.azimuth_stdev * std.azimuth_stdev]
  ELSE imu

\* Mutant: angular velocity x and y taken from roll_rate and pitch_rate.
ImuMotionScaled_SwappedAxes(imu, corr, rate) ==
       [imu EXCEPT !.angular_velocity.x = corr.roll_rate * rate,
                   !.angular_velocity.y = corr.pitch_rate * rate,
                   !.angular_velocity.z = corr.yaw_rate * rate,
                   !.linear_acceleration.x = corr.lateral_acc * rate,
                   !.linear_acceleration.y = corr.longitudinal_acc * rate,
                   !.linear_acceleration.z = corr.vertical_acc * rate,
                   !.angular_velocity_covariance[1] = COV_FIXED,
                   !.angular_velocity_covariance[5] = COV_FIXED,
                   !.angular_velocity_covariance[9] = COV_FIXED,
                   !.linear_acceleration_covariance[1] = COV_FIXED,
                   !.linear_acceleration_covariance[5] = COV_FIXED,
                   !.linear_acceleration_covariance[9] = COV_FIXED]

\* Lines 185-202: angular velocity, linear acceleration and their covariances.
ImuMotionScaled(imu, corr, rate) ==
       [imu EXCEPT !.angular_velocity.x = corr.pitch_rate * rate,
                   !.angular_velocity.y = corr.roll_rate * rate,
                   !.angular_velocity.z = corr.yaw_rate * rate,
                   !.linear_acceleration.x = corr.lateral_acc * rate,
                   !.linear_acceleration.y = corr.longitudinal_acc * rate,
                   !.linear_acceleration.z = corr.vertical_acc * rate,
                   !.angular_velocity_covariance[1] = COV_FIXED,
                   !.angular_velocity_covariance[5] = COV_FIXED,
                   !.angular_velocity_covariance[9] = COV_FIXED,
                   !.linear_acceleration_covariance[1] = COV_FIXED,
                   !.linear_acceleration_covariance[5] = COV_FIXED,
                   !.linear_acceleration_covariance[9] = COV_FIXED]

\* Lines 206-207: the "data not available" sentinel.
ImuMotionNotAvailable(imu) ==
  [imu EXCEPT !.angular_velocity_covariance[1] = DATA_NOT_AVAILABLE,
              !.linear_acceleration_covariance[1] = DATA_NOT_AVAILABLE]

\* Mutant: the rate test written imu_rate_ != 0.
ImuMotion_RateNonZero(imu, corr, rate) ==
  IF corr # NULL /\ rate # 0
  THEN ImuMotionScaled(imu, corr, rate)
  ELSE ImuMotionNotAvailable(imu)

\* Lines 184-208: angular velocity and linear acceleration, or the sentinel.
ImuMotion(imu, corr, rate) ==
  IF corr # NULL /\ rate > 0
  THEN ImuMotionScaled(imu, corr, rate)
  ELSE ImuMotionNotAvailable(imu)

\* Lines 160-210 of publishImuMsg for a cached INSPVA: the composed message.
ComposeImu(pva, std, corr, rate) ==
  ImuMotion(ImuOrientationCovariance(ImuOrientation(NewImu, pva), std), corr, rate)

\* Lines 171-175: no INSPVA cached.
skipImu == [out |-> << >>, log |-> << "WARN_THROTTLE_INSPVA_NOT_AVAILABLE" >>,
            composed |-> TRUE]

\* Mutant: the message is composed and published without a cached INSPVA.
publishImuMsg_NoInspvaCheck(en, pva, std, corr, rate) ==
  IF ~isEnabled(en, "IMU")
  THEN [out |-> << >>, log |-> << >>, composed |-> FALSE]
  ELSE [out |-> Publish(en, "IMU",
                  IF pva # NULL THEN ComposeImu(pva, std, corr, rate)
                  ELSE ImuMotion(ImuOrientationCovariance(NewImu, std), corr, rate)),
        log |-> << >>, composed |-> TRUE]

\* Mutant: no early return when the IMU publisher is disabled.
publishImuMsg_NoEnabledCheck(en, pva, std, corr, rate) ==
  IF pva # NULL
  THEN [out |-> Publish(en, "IMU", ComposeImu(pva, std, corr, rate)),
        log |-> << >>, composed |-> TRUE]
  ELSE skipImu

\* publishImuMsg: composes and publishes the sensor_msgs::Imu message.
\* composed tells whether the method went past the isEnabled() early return.
publishImuMsg(en, pva, std, corr, rate) ==
  IF ~isEnabled(en, "IMU")
  THEN [out |-> << >>, log |-> << >>, composed |-> FALSE]
  ELSE IF pva # NULL
       THEN [out |-> Publish(en, "IMU", ComposeImu(pva, std, corr, rate)),
             log |-> << >>, composed |-> TRUE]
       ELSE skipImu

\* ------------------------------------------------------------------------
\* State
\* ------------------------------------------------------------------------

VARIABLES
  pc,              \* "constructed", "ready" (initialized) or "aborted"
  imu_rate_,       \* int imu_rate_
  inspva_,         \* cached INSPVA, or NULL
  corrimu_,        \* cached CORRIMU, or NULL
  insstdev_,       \* cached INSSTDEV, or NULL
  enabled,         \* per publisher: set up and enabled
  param_imu_rate,  \* configuration: the "imu_rate" parameter
  topics,          \* configuration: which of the five topics are enabled
  last,            \* the message of the last handleMsg call, or NoMsg
  out,             \* messages published by the last call, in order
  log,             \* log statements executed by the last call, in order
  exc,             \* exception that left the last call, or "none"
  asserted,        \* the last call reached assert(false)
  looked,          \* the last call ran the automatic rate resolution
  composed,        \* the last call ran publishImuMsg past its early return
  lookups,         \* history: number of automatic rate resolutions run
  resolved,        \* history: number of them that returned (assigned imu_rate_)
  seen,            \* history: the latest body handled, per cached kind
  motionEmitted    \* history: a sensor_msgs::Imu message with populated
                   \* motion fields (no sentinel) has been published

vars == << pc, imu_rate_, inspva_, corrimu_, insstdev_, enabled, param_imu_rate,
           topics, last, out, log, exc, asserted, looked, composed,
           lookups, resolved, seen, motionEmitted >>

\* The fields of the handler that handleMsg reads and writes.
Self ==
  [ imu_rate |-> imu_rate_, inspva |-> inspva_, corrimu |-> corrimu_,
    insstdev |-> insstdev_, enabled |-> enabled ]

\* The result of a handleMsg call that changes no field and publishes nothing.
Quiet(self) ==
  [ imu_rate |-> self.imu_rate, inspva |-> self.inspva, corrimu |-> self.corrimu,
    insstdev |-> self.insstdev, out |-> << >>, log |-> << "DEBUG_INS_MSG" >>,
    exc |-> "none", asserted |-> FALSE, looked |-> FALSE, composed |-> FALSE ]

\* Mutant: publishImuMsg is called before publishCorrImuMsg.
handleCorrImu_ComposeFirst(self, msg) ==
  LET i == publishImuMsg(self.enabled, self.inspva, self.insstdev,
                         self.corrimu, self.imu_rate)
      c == publishCorrImuMsg(self.enabled, msg)
      q == Quiet(self)
  IN  [q EXCEPT !.corrimu = c.corrimu, !.out = i.out \o c.out,
                !.log = q.log \o i.log, !.composed = i.composed]

\* Mutant: the CORRIMU message is published from a local and corrimu_ is
\* left as it was.
handleCorrImu_LocalMessage(self, msg) ==
  LET c == publishCorrImuMsg(self.enabled, msg)
      i == publishImuMsg(self.enabled, self.inspva, self.insstdev,
                         self.corrimu, self.imu_rate)
      q == Quiet(self)
  IN  [q EXCEPT !.out = c.out \o i.out,
                !.log = q.log \o i.log, !.composed = i.composed]

\* Lines 274-280: the CORRIMUS / IMURATECORRIMUS branch.
handleCorrImu(self, msg) ==
  LET c == publishCorrImuMsg(self.enabled, msg)
      i == publishImuMsg(self.enabled, self.inspva, self.insstdev,
                         c.corrimu, self.imu_rate)
      q == Quiet(self)
  IN  [q EXCEPT !.corrimu = c.corrimu, !.out = c.out \o i.out,
                !.log = q.log \o i.log, !.composed = i.composed]

\* Lines 281-284: the INSCONFIG branch.
handleInsConfig(self, msg) ==
  LET r == processInsConfigMsg(self.enabled, self.imu_rate, msg)
      q == Quiet(self)
  IN  [q EXCEPT !.imu_rate = r.imu_rate, !.out = r.out,
                !.log = q.log \o r.log, !.exc = r.exc, !.looked = r.looked]

\* Mutant: the INSSTDEV message is published from a local and not stored.
handleInsStDev_NoCache(self, msg) ==
  LET r == publishInsStDevMsg(self.enabled, msg)
  IN  [Quiet(self) EXCEPT !.out = r.out]

\* Lines 270-273: the INSSTDEV branch.
handleInsStDev(self, msg) ==
  LET r == publishInsStDevMsg(self.enabled, msg)
  IN  [Quiet(self) EXCEPT !.insstdev = r.insstdev, !.out = r.out]

\* Mutant: the dispatch has no INSPVAX branch, though getMessageIds lists it.
handleMsg_NoInsPvaxBranch(self, msg) ==
  IF msg.id = "INSPVAS_OEM7_MSGID"
  THEN [Quiet(self) EXCEPT !.inspva = MakeROSMessage(msg)]
  ELSE IF msg.id = "INSSTDEV_OEM7_MSGID"
  THEN handleInsStDev(self, msg)
  ELSE IF msg.id = "CORRIMUS_OEM7_MSGID" \/ msg.id = "IMURATECORRIMUS_OEM7_MSGID"
  THEN handleCorrImu(self, msg)
  ELSE IF msg.id = "INSCONFIG_OEM7_MSGID"
  THEN handleInsConfig(self, msg)
  ELSE [Quiet(self) EXCEPT !.asserted = TRUE]

\* Mutant: the INSPVAS branch also calls publishImuMsg.
handleMsg_InsPvaTriggersImu(self, msg) ==
  IF msg.id = "INSPVAS_OEM7_MSGID"
  THEN LET i == publishImuMsg(self.enabled, MakeROSMessage(msg), self.insstdev,
                              self.corrimu, self.imu_rate)
       IN  [Quiet(self) EXCEPT !.inspva = MakeROSMessage(msg), !.out = i.out]
  ELSE IF msg.id = "INSSTDEV_OEM7_MSGID"
  THEN handleInsStDev(self, msg)
  ELSE IF msg.id = "CORRIMUS_OEM7_MSGID" \/ msg.id = "IMURATECORRIMUS_OEM7_MSGID"
  THEN handleCorrImu(self, msg)
  ELSE IF msg.id = "INSCONFIG_OEM7_MSGID"
  THEN handleInsConfig(self, msg)
  ELSE IF msg.id = "INSPVAX_OEM7_MSGID"
  THEN [Quiet(self) EXCEPT !.out = publishInsPVAXMsg(self.enabled, msg)]
  ELSE [Quiet(self) EXCEPT !.asserted = TRUE]

\* Mutant: the INSPVAX branch publishes and also clears the cached INSPVA.
handleMsg_InsPvaxDropsInsPva(self, msg) ==
  IF msg.id = "INSPVAS_OEM7_MSGID"
  THEN [Quiet(self) EXCEPT !.inspva = MakeROSMessage(msg)]
  ELSE IF msg.id = "INSSTDEV_OEM7_MSGID"
  THEN handleInsStDev(self, msg)
  ELSE IF msg.id = "CORRIMUS_OEM7_MSGID" \/ msg.id = "IMURATECORRIMUS_OEM7_MSGID"
  THEN handleCorrImu(self, msg)
  ELSE IF msg.id = "INSCONFIG_OEM7_MSGID"
  THEN handleInsConfig(self, msg)
  ELSE IF msg.id = "INSPVAX_OEM7_MSGID"
  THEN [Quiet(self) EXCEPT !.out = publishInsPVAXMsg(self.enabled, msg),
                           !.inspva = NULL]
  ELSE [Quiet(self) EXCEPT !.asserted = TRUE]

\* handleMsg: the dispatch on the message id and the effect of each branch.
handleMsg(self, msg) ==
  IF msg.id = "INSPVAS_OEM7_MSGID"
  THEN [Quiet(self) EXCEPT !.inspva = MakeROSMessage(msg)]
  ELSE IF msg.id = "INSSTDEV_OEM7_MSGID"
  THEN handleInsStDev(self, msg)
  ELSE IF msg.id = "CORRIMUS_OEM7_MSGID" \/ msg.id = "IMURATECORRIMUS_OEM7_MSGID"
  THEN handleCorrImu(self, msg)
  ELSE IF msg.id = "INSCONFIG_OEM7_MSGID"
  THEN handleInsConfig(self, msg)
  ELSE IF msg.id = "INSPVAX_OEM7_MSGID"
  THEN [Quiet(self) EXCEPT !.out = publishInsPVAXMsg(self.enabled, msg)]
  ELSE [Quiet(self) EXCEPT !.asserted = TRUE]

\* Mutant: the "imu_rate" parameter is not read.
initialize_NoOverride(rate, param) == rate

\* initialize: the value of imu_rate_ after nh.getParam("imu_rate", imu_rate_),
\* which stores the parameter when it is set and leaves imu_rate_ alone when not.
initialize(rate, param) == IF param.present THEN param.value ELSE rate

\* ------------------------------------------------------------------------
\* Initial state: after the constructor, for every configuration and build
\* ------------------------------------------------------------------------

Init ==
  /\ pc = "constructed"
  /\ imu_rate_ = 0
  /\ inspva_ = NULL
  /\ corrimu_ = NULL
  /\ insstdev_ = NULL
  /\ enabled = [c \in Channels |-> FALSE]
  /\ param_imu_rate \in OverrideValues
  /\ topics \in [Channels -> BOOLEAN]
  /\ last = NoMsg
  /\ out = << >>
  /\ log = << >>
  /\ exc = "none"
  /\ asserted = FALSE
  /\ looked = FALSE
  /\ composed = FALSE
  /\ lookups = 0
  /\ resolved = 0
  /\ seen = [inspva |-> NULL, corrimu |-> NULL, insstdev |-> NULL]
  /\ motionEmitted = FALSE

\* ------------------------------------------------------------------------
\* Actions
\* ------------------------------------------------------------------------

\* initialize(nh): sets up the publishers and reads the rate override.
Initialize ==
  /\ pc = "constructed"
  /\ pc' = "ready"
  /\ enabled' = topics
  /\ imu_rate_' = initialize(imu_rate_, param_imu_rate)
  /\ log' = IF imu_rate_' > 0 THEN << "INFO_IMU_RATE_OVERRIDEN" >> ELSE << >>
  /\ out' = << >>
  /\ UNCHANGED << inspva_, corrimu_, insstdev_, param_imu_rate, topics,
                  last, exc, asserted, looked, composed, lookups, resolved, seen,
                  motionEmitted >>

\* One call handleMsg(msg) on the initialized handler.  assert(false) aborts
\* the process unless the build defines NDEBUG (ndebug).
Deliver(msg, ndebug) ==
  /\ pc = "ready"
  /\ \E r \in { handleMsg(Self, msg) } :
     /\ r.looked => lookups < MaxLookups
     /\ imu_rate_' = r.imu_rate
     /\ inspva_' = r.inspva
     /\ corrimu_' = r.corrimu
     /\ insstdev_' = r.insstdev
     /\ out' = r.out
     /\ log' = r.log
     /\ exc' = r.exc
     /\ asserted' = r.asserted
     /\ looked' = r.looked
     /\ composed' = r.composed
     /\ pc' = IF r.asserted /\ ~ndebug THEN "aborted" ELSE "ready"
     /\ last' = msg
     /\ lookups' = IF r.looked THEN lookups + 1 ELSE lookups
     /\ resolved' = IF r.looked /\ r.exc = "none" THEN resolved + 1 ELSE resolved
     /\ seen' = CASE msg.id = "INSPVAS_OEM7_MSGID" -> [seen EXCEPT !.inspva = msg.body]
                  [] msg.id = "INSSTDEV_OEM7_MSGID" -> [seen EXCEPT !.insstdev = msg.body]
                  [] msg.id \in { "CORRIMUS_OEM7_MSGID", "IMURATECORRIMUS_OEM7_MSGID" }
                       -> [seen EXCEPT !.corrimu = msg.body]
                  [] OTHER -> seen
     /\ motionEmitted' =
          (motionEmitted \/
           \E i \in DOMAIN r.out :
              /\ r.out[i].chan = "IMU"
              /\ r.out[i].msg.angular_velocity_covariance[1] # DATA_NOT_AVAILABLE)
     /\ UNCHANGED << enabled, param_imu_rate, topics >>

HandleInsPva ==
  \E b \in InsPvaBodies : Deliver([id |-> "INSPVAS_OEM7_MSGID", body |-> b], TRUE)

HandleInsStdev ==
  \E b \in InsStdevBodies : Deliver([id |-> "INSSTDEV_OEM7_MSGID", body |-> b], TRUE)

HandleCorrImu ==
  \E b \in CorrImuBodies : Deliver([id |-> "CORRIMUS_OEM7_MSGID", body |-> b], TRUE)

HandleImuRateCorrImu ==
  \E b \in CorrImuBodies : Deliver([id |-> "IMURATECORRIMUS_OEM7_MSGID", body |-> b], TRUE)

HandleInsConfig ==
  \E b \in InsConfigBodies : Deliver([id |-> "INSCONFIG_OEM7_MSGID", body |-> b], TRUE)

HandleInsPvax ==
  \E b \in InsPvaxBodies : Deliver([id |-> "INSPVAX_OEM7_MSGID", body |-> b], TRUE)

\* A message whose id is not in getMessageIds, in either build.
HandleOther ==
  \E i \in OtherIds, ndebug \in BOOLEAN :
    Deliver([id |-> i, body |-> [unused |-> TRUE]], ndebug)

Next ==
  \/ Initialize
  \/ HandleInsPva
  \/ HandleInsStdev
  \/ HandleCorrImu
  \/ HandleImuRateCorrImu
  \/ HandleInsConfig
  \/ HandleInsPvax
  \/ HandleOther

Spec == Init /\ [][Next]_vars

TypeOK ==
  /\ pc \in { "constructed", "ready", "aborted" }
  /\ imu_rate_ \in Int
  /\ lookups \in 0 .. MaxLookups
  /\ resolved \in 0 .. lookups

\* ------------------------------------------------------------------------
\* Vocabulary of the properties
\* ------------------------------------------------------------------------

CorrImuIds == { "CORRIMUS_OEM7_MSGID", "IMURATECORRIMUS_OEM7_MSGID" }

\* The messages the last call published on channel c, in order.
OutOn(c) == SelectSeq(out, LAMBDA o : o.chan = c)

\* The sensor_msgs::Imu messages the last call published.
ImuOut == { out[i].msg : i \in { j \in DOMAIN out : out[j].chan = "IMU" } }

\* A covariance array whose three diagonal entries are v, the rest default.
Diag(v) == [Zero9 EXCEPT ![1] = v, ![5] = v, ![9] = v]

\* A covariance array carrying the "data not available" sentinel.
NotAvailable9 == [Zero9 EXCEPT ![1] = DATA_NOT_AVAILABLE]

ZeroVector == [x |-> 0, y |-> 0, z |-> 0]

\* The "imu_rate" parameter is set to a value > 0.
PositiveOverride == param_imu_rate.present /\ param_imu_rate.value > 0

\* The passthrough channel of a message id.
ChannelOf(id) ==
  CASE id = "INSSTDEV_OEM7_MSGID" -> "INSSTDEV"
    [] id \in CorrImuIds -> "CORRIMU"
    [] id = "INSCONFIG_OEM7_MSGID" -> "INSCONFIG"
    [] id = "INSPVAX_OEM7_MSGID" -> "INSPVAX"

\* ------------------------------------------------------------------------
\* C1
\* ------------------------------------------------------------------------

C2_PositiveOverrideIsPermanent ==
  (pc # "constructed" /\ PositiveOverride) =>
     (imu_rate_ = param_imu_rate.value /\ lookups = 0 /\ ~looked)

\* An INSCONFIG message naming a supported IMU was handled under a positive override.
C2_Witness ==
  /\ PositiveOverride
  /\ last.id = "INSCONFIG_OEM7_MSGID"
  /\ last.body.imu_type = 1
  /\ corrimu_ # NULL

\* ------------------------------------------------------------------------
\* C3
\* ------------------------------------------------------------------------

\* C3: with no override or an override <= 0, imu_rate_ is 0 after initialize
\* and the first INSCONFIG message runs the automatic resolution.
C3_NonPositiveOverrideHasNoEffect ==
  (pc # "constructed" /\ ~PositiveOverride) =>
     /\ (lookups = 0 => imu_rate_ = 0)
     /\ (last.id = "INSCONFIG_OEM7_MSGID" => lookups >= 1)

\* ------------------------------------------------------------------------
\* C4
\* ------------------------------------------------------------------------

\* C4: once imu_rate_ is non-zero no handled message changes it.
C4_NonZeroRateIsFrozen == [][ imu_rate_ # 0 => imu_rate_' = imu_rate_ ]_vars

\* An INSCONFIG message naming another supported IMU was handled after the
\* rate had been resolved.
C4_Witness ==
  /\ lookups = 1
  /\ imu_rate_ = 100
  /\ last.id = "INSCONFIG_OEM7_MSGID"
  /\ last.body.imu_type = 3
  /\ ~looked

\* ------------------------------------------------------------------------
\* C5
\* ------------------------------------------------------------------------

\* C5: a sensor_msgs::Imu message is published only if an INSPVA message was
\* handled before; a CORRIMU arrival with no INSPVA ever handled publishes
\* none, whatever else is known.
C5_NoImuWithoutInspva == (ImuOut # {}) => (seen.inspva # NULL)

\* A CORRIMU arrival with the IMU topic enabled, INSSTDEV cached and the rate
\* known, but no INSPVA ever handled: nothing but the passthrough comes out.
C5_Witness ==
  /\ last.id \in CorrImuIds
  /\ enabled["IMU"]
  /\ seen.inspva = NULL
  /\ insstdev_ # NULL
  /\ imu_rate_ > 0
  /\ ImuOut = {}
  /\ composed

\* ------------------------------------------------------------------------
\* C6
\* ------------------------------------------------------------------------

\* C6: in every published sensor_msgs::Imu message the motion fields are
\* populated, with the six covariance diagonal entries at the fixed constant,
\* if and only if a CORRIMU is cached and imu_rate_ > 0; otherwise the two
\* vectors are default and exactly the first diagonal entry of each of the
\* two covariance arrays is the sentinel, the rest default.
C6_MotionOrSentinel ==
  \A m \in ImuOut :
    IF corrimu_ # NULL /\ imu_rate_ > 0
    THEN /\ m.angular_velocity_covariance = Diag(COV_FIXED)
         /\ m.linear_acceleration_covariance = Diag(COV_FIXED)
         /\ m.angular_velocity = [x |-> corrimu_.pitch_rate * imu_rate_,
                                  y |-> corrimu_.roll_rate * imu_rate_,
                                  z |-> corrimu_.yaw_rate * imu_rate_]
         /\ m.linear_acceleration = [x |-> corrimu_.lateral_acc * imu_rate_,
                                     y |-> corrimu_.longitudinal_acc * imu_rate_,
                                     z |-> corrimu_.vertical_acc * imu_rate_]
    ELSE /\ m.angular_velocity = ZeroVector
         /\ m.linear_acceleration = ZeroVector
         /\ m.angular_velocity_covariance = NotAvailable9
         /\ m.linear_acceleration_covariance = NotAvailable9

\* A message was published for a non-zero CORRIMU sample while the rate was
\* a negative override: it carries the sentinel.
C6_Witness ==
  /\ ImuOut # {}
  /\ imu_rate_ < 0
  /\ corrimu_ # NULL
  /\ corrimu_.pitch_rate = 1

\* ------------------------------------------------------------------------
\* C7
\* ------------------------------------------------------------------------

\* C7: handling an INSCONFIG message whose imu_type is not in supported_imus
\* returns normally, leaves imu_rate_ at 0 and publishes the INSCONFIG
\* passthrough; while the rate is 0 every published sensor_msgs::Imu
\* message carries the sentinel.
C7_FailedLookupIsNotFatal ==
  /\ (last.id = "INSCONFIG_OEM7_MSGID" /\ looked
        /\ last.body.imu_type \notin DOMAIN supported_imus) =>
       /\ exc = "none"
       /\ imu_rate_ = 0
       /\ OutOn("INSCONFIG") =
            (IF enabled["INSCONFIG"]
             THEN << [chan |-> "INSCONFIG", msg |-> last.body] >> ELSE << >>)
  /\ (imu_rate_ = 0) =>
       \A m \in ImuOut : /\ m.angular_velocity_covariance = NotAvailable9
                          /\ m.linear_acceleration_covariance = NotAvailable9

\* ------------------------------------------------------------------------
\* C8
\* ------------------------------------------------------------------------

\* C8: every INSSTDEV, CORRIMUS, IMURATECORRIMUS, INSCONFIG or INSPVAX arrival
\* publishes on its own channel exactly one message, equal to the input, when
\* the channel is enabled, and none when it is disabled, in every state.
C8_Passthrough ==
  (last.id \in { "INSSTDEV_OEM7_MSGID", "INSCONFIG_OEM7_MSGID", "INSPVAX_OEM7_MSGID" }
                 \cup CorrImuIds) =>
     OutOn(ChannelOf(last.id)) =
       (IF topics[ChannelOf(last.id)]
        THEN << [chan |-> ChannelOf(last.id), msg |-> last.body] >>
        ELSE << >>)

\* An INSPVAX arrival published on its channel while the IMU and INSCONFIG
\* channels were disabled and all three caches were filled.
C8_Witness ==
  /\ last.id = "INSPVAX_OEM7_MSGID"
  /\ topics["INSPVAX"] /\ ~topics["IMU"] /\ ~topics["INSCONFIG"]
  /\ Len(out) = 1
  /\ inspva_ # NULL /\ corrimu_ # NULL /\ insstdev_ # NULL

\* ------------------------------------------------------------------------
\* C9
\* ------------------------------------------------------------------------

\* C9: with the IMU channel disabled a CORRIMU arrival publishes no
\* sensor_msgs::Imu message and runs no composition step, not even the
\* missing-INSPVA warning, while corrimu_ is overwritten and the CORRIMU
\* passthrough follows its own enable flag.
C9_DisabledImuIsNoOp ==
  (last.id \in CorrImuIds /\ ~topics["IMU"]) =>
     /\ ImuOut = {}
     /\ ~composed
     /\ log = << "DEBUG_INS_MSG" >>
     /\ corrimu_ = last.body
     /\ out = (IF topics["CORRIMU"]
               THEN << [chan |-> "CORRIMU", msg |-> last.body] >> ELSE << >>)

\* A CORRIMU arrival with the IMU channel disabled, the passthrough enabled
\* and no INSPVA cached (the state in which the warning would be due).
C9_Witness ==
  /\ last.id \in CorrImuIds
  /\ ~topics["IMU"]
  /\ topics["CORRIMU"]
  /\ inspva_ = NULL
  /\ Len(out) = 1

\* ------------------------------------------------------------------------
\* C10
\* ------------------------------------------------------------------------

\* C10: a call of handleMsg reaches assert(false) exactly when the message id
\* is not one of the six ids of getMessageIds, and such a call changes no
\* cache, not imu_rate_, and publishes nothing.
C10_AssertIffNotSubscribed ==
  [][ pc = "ready" =>
        /\ asserted' <=> (last'.id \notin Range(getMessageIds))
        /\ asserted' =>
             /\ out' = << >>
             /\ UNCHANGED << imu_rate_, inspva_, corrimu_, insstdev_ >> ]_vars

\* An unsubscribed message was handled with all caches filled and the rate known.
C10_Witness ==
  /\ asserted
  /\ last.id \in OtherIds
  /\ inspva_ # NULL /\ corrimu_ # NULL /\ insstdev_ # NULL
  /\ imu_rate_ > 0

\* ------------------------------------------------------------------------
\* C11
\* ------------------------------------------------------------------------

\* C11: handling an INSPVA message publishes nothing on any channel, even
\* with a CORRIMU cached and the rate known, and changes no field but
\* inspva_, which becomes the new message.
C11_InsPvaIsCacheOnly ==
  [][ (pc = "ready" /\ last'.id = "INSPVAS_OEM7_MSGID") =>
        /\ out' = << >>
        /\ inspva_' = last'.body
        /\ exc' = "none"
        /\ UNCHANGED << imu_rate_, corrimu_, insstdev_, enabled >> ]_vars

\* An INSPVA message replaced the cached one while every channel was enabled,
\* a CORRIMU was cached and the rate was known.
C11_Witness ==
  /\ last.id = "INSPVAS_OEM7_MSGID"
  /\ last.body.roll = 180
  /\ inspva_ = last.body
  /\ \A c \in Channels : enabled[c]
  /\ corrimu_ # NULL
  /\ imu_rate_ > 0
  /\ out = << >>

\* ------------------------------------------------------------------------
\* C12
\* ------------------------------------------------------------------------

\* C12: in every published sensor_msgs::Imu message the orientation
\* covariance holds pitch_stdev^2, roll_stdev^2, azimuth_stdev^2 of the
\* INSSTDEV message handled last at C++ indices 0, 4, 8 (the rest default),
\* and is entirely default when no INSSTDEV was ever handled; the message is
\* published in that case too.
C12_OrientationCovariance ==
  /\ \A m \in ImuOut :
       m.orientation_covariance =
         (IF seen.insstdev # NULL
          THEN << seen.insstdev.pitch_stdev * seen.insstdev.pitch_stdev, 0, 0,
                  0, seen.insstdev.roll_stdev * seen.insstdev.roll_stdev, 0,
                  0, 0, seen.insstdev.azimuth_stdev * seen.insstdev.azimuth_stdev >>
          ELSE Zero9)
  /\ (last.id \in CorrImuIds /\ enabled["IMU"] /\ seen.inspva # NULL
        /\ seen.insstdev = NULL) => ImuOut # {}

\* A message was published with the variances 0.09, 0.01, 0.04 of the
\* INSSTDEV (pitch 0.3, roll 0.1, azimuth 0.2) handled last.
C12_Witness ==
  /\ seen.insstdev = [pitch_stdev |-> 3, roll_stdev |-> 1, azimuth_stdev |-> 2]
  /\ \E m \in ImuOut :
       /\ m.orientation_covariance[1] = 9
       /\ m.orientation_covariance[5] = 1
       /\ m.orientation_covariance[9] = 4

\* ------------------------------------------------------------------------
\* C13
\* ------------------------------------------------------------------------

\* C13: when the motion fields are populated (imu_rate_ > 0), angular velocity
\* (x, y, z) is (pitch_rate, roll_rate, yaw_rate) * imu_rate_ and linear
\* acceleration (x, y, z) is (lateral, longitudinal, vertical) * imu_rate_ of
\* the CORRIMU handled last; rate 100 and sample (1,2,3,4,5,6) give
\* (100,200,300) and (400,500,600).
C13_ScaledMotion ==
  \A m \in ImuOut :
    (imu_rate_ > 0) =>
      /\ m.angular_velocity.x = seen.corrimu.pitch_rate * imu_rate_
      /\ m.angular_velocity.y = seen.corrimu.roll_rate * imu_rate_
      /\ m.angular_velocity.z = seen.corrimu.yaw_rate * imu_rate_
      /\ m.linear_acceleration.x = seen.corrimu.lateral_acc * imu_rate_
      /\ m.linear_acceleration.y = seen.corrimu.longitudinal_acc * imu_rate_
      /\ m.linear_acceleration.z = seen.corrimu.vertical_acc * imu_rate_
      /\ (imu_rate_ = 100 /\ seen.corrimu.pitch_rate = 1) =>
            /\ m.angular_velocity = [x |-> 100, y |-> 200, z |-> 300]
            /\ m.linear_acceleration = [x |-> 400, y |-> 500, z |-> 600]

\* The sample (1,2,3,4,5,6) was published at the resolved rate 100.
C13_Witness ==
  /\ imu_rate_ = 100
  /\ \E m \in ImuOut :
       /\ m.angular_velocity = [x |-> 100, y |-> 200, z |-> 300]
       /\ m.linear_acceleration = [x |-> 400, y |-> 500, z |-> 600]

\* ------------------------------------------------------------------------
\* C14
\* ------------------------------------------------------------------------

\* The CORRIMU passthrough a call handling body b publishes.
CorrImuPass(b) ==
  IF enabled["CORRIMU"] THEN << [chan |-> "CORRIMU", msg |-> b] >> ELSE << >>

\* After a CORRIMUS or IMURATECORRIMUS call: corrimu_ holds the new message,
\* the passthrough comes first, and at most one sensor_msgs::Imu message
\* follows it, scaled from the new sample; after a call of any other kind no
\* sensor_msgs::Imu message was published.
C14_OrderInv ==
  /\ (last.id \in CorrImuIds) =>
       /\ corrimu_ = last.body
       /\ Len(out) \in { Len(CorrImuPass(last.body)), Len(CorrImuPass(last.body)) + 1 }
       /\ SubSeq(out, 1, Len(CorrImuPass(last.body))) = CorrImuPass(last.body)
       /\ (Len(out) = Len(CorrImuPass(last.body)) + 1) =>
            /\ out[Len(out)].chan = "IMU"
            /\ (imu_rate_ > 0) =>
                 out[Len(out)].msg.angular_velocity.x = last.body.pitch_rate * imu_rate_
  /\ (last.id \notin CorrImuIds) => ImuOut = {}

\* A CORRIMUS and an IMURATECORRIMUS message with the same body have the same
\* effect on every field and publish the same messages, which is the effect
\* of the step taken.
C14_SameEffect ==
  (pc = "ready" /\ last'.id \in CorrImuIds) =>
     \A a \in { handleMsg(Self, [id |-> "CORRIMUS_OEM7_MSGID", body |-> last'.body]) },
        b \in { handleMsg(Self, [id |-> "IMURATECORRIMUS_OEM7_MSGID", body |-> last'.body]) } :
        /\ a = b
        /\ imu_rate_' = a.imu_rate
        /\ inspva_' = a.inspva
        /\ corrimu_' = a.corrimu
        /\ insstdev_' = a.insstdev
        /\ out' = a.out
        /\ log' = a.log
        /\ exc' = a.exc
        /\ asserted' = a.asserted

\* C14: on every CORRIMUS or IMURATECORRIMUS arrival the cache is overwritten,
\* then the passthrough is published, then at most one sensor_msgs::Imu
\* message; the two kinds have identical effects; no message of another kind
\* causes a sensor_msgs::Imu message.
C14_CorrImuOrderAndTrigger == [] C14_OrderInv /\ [][ C14_SameEffect ]_vars

\* An IMURATECORRIMUS arrival published the passthrough and then the
\* sensor_msgs::Imu message scaled from the same new sample.
C14_Witness ==
  /\ last.id = "IMURATECORRIMUS_OEM7_MSGID"
  /\ last.body.pitch_rate = 1
  /\ Len(out) = 2
  /\ out[1] = [chan |-> "CORRIMU", msg |-> last.body]
  /\ out[2].chan = "IMU"
  /\ out[2].msg.angular_velocity.x = imu_rate_
  /\ imu_rate_ > 0

\* ------------------------------------------------------------------------
\* C15
\* ------------------------------------------------------------------------

\* C15: each cache holds exactly the message of its kind handled last, and
\* every published sensor_msgs::Imu message is composed from the CORRIMU
\* whose arrival triggered it, the INSPVA handled last and the INSSTDEV
\* handled last.
C15_LatestOfEachKind ==
  /\ inspva_ = seen.inspva
  /\ corrimu_ = seen.corrimu
  /\ insstdev_ = seen.insstdev
  /\ \A m \in ImuOut :
       /\ last.id \in CorrImuIds
       /\ m.orientation = setRPY(degreesToRadians(seen.inspva.roll),
                                 0 - degreesToRadians(seen.inspva.pitch),
                                 0 - degreesToRadians(seen.inspva.azimuth))
       /\ m.orientation_covariance[9] =
            (IF seen.insstdev = NULL THEN 0
             ELSE seen.insstdev.azimuth_stdev * seen.insstdev.azimuth_stdev)
       /\ (imu_rate_ > 0) =>
            /\ m.angular_velocity.z = last.body.yaw_rate * imu_rate_
            /\ m.linear_acceleration.z = last.body.vertical_acc * imu_rate_

\* A message composed from the second INSPVA and INSSTDEV samples and the
\* all-zero CORRIMU that triggered it, at a known rate.
C15_Witness ==
  /\ seen.inspva = [roll |-> 180, pitch |-> 0, azimuth |-> 180]
  /\ seen.insstdev = [pitch_stdev |-> 3, roll_stdev |-> 1, azimuth_stdev |-> 2]
  /\ last.id \in CorrImuIds
  /\ last.body.yaw_rate = 0
  /\ imu_rate_ > 0
  /\ \E m \in ImuOut :
       /\ m.orientation = [x |-> 0, y |-> -1, z |-> 0, w |-> 0]
       /\ m.orientation_covariance[9] = 4
       /\ m.angular_velocity.z = 0

\* ------------------------------------------------------------------------
\* C16
\* ------------------------------------------------------------------------

\* C16: an INSSTDEV call changes only insstdev_; a CORRIMUS or IMURATECORRIMUS
\* call changes only corrimu_; an INSCONFIG call changes no cache and changes
\* imu_rate_ only when it was 0 before the call; an INSPVAX call changes no
\* cache and not imu_rate_.
C16_HandlersOwnState ==
  [][ pc = "ready" =>
        /\ (last'.id = "INSSTDEV_OEM7_MSGID") =>
              UNCHANGED << inspva_, corrimu_, imu_rate_, enabled >>
        /\ (last'.id \in CorrImuIds) =>
              UNCHANGED << inspva_, insstdev_, imu_rate_, enabled >>
        /\ (last'.id = "INSCONFIG_OEM7_MSGID") =>
              /\ UNCHANGED << inspva_, corrimu_, insstdev_, enabled >>
              /\ (imu_rate_' # imu_rate_) => imu_rate_ = 0
        /\ (last'.id = "INSPVAX_OEM7_MSGID") =>
              UNCHANGED << inspva_, corrimu_, insstdev_, imu_rate_, enabled >> ]_vars

\* An INSPVAX message was handled with the three caches filled and the rate
\* resolved from an INSCONFIG message.
C16_Witness ==
  /\ last.id = "INSPVAX_OEM7_MSGID"
  /\ inspva_ # NULL /\ corrimu_ # NULL /\ insstdev_ # NULL
  /\ imu_rate_ = 100
  /\ lookups = 1

\* ------------------------------------------------------------------------
\* C17
\* ------------------------------------------------------------------------

\* C17: whenever publishImuMsg runs a CORRIMU is already cached, so a
\* published sensor_msgs::Imu message carries the "data not available"
\* sentinel if and only if imu_rate_ <= 0.
C17_SentinelIffRateUnknown ==
  /\ (last.id \in CorrImuIds \/ composed) => corrimu_ # NULL
  /\ \A m \in ImuOut :
       /\ (m.angular_velocity_covariance[1] = DATA_NOT_AVAILABLE) <=> (imu_rate_ <= 0)
       /\ (m.linear_acceleration_covariance[1] = DATA_NOT_AVAILABLE) <=> (imu_rate_ <= 0)

\* A message with populated motion fields was published for the all-zero
\* CORRIMU sample, and the rate was known.
C17_Witness ==
  /\ imu_rate_ > 0
  /\ corrimu_ # NULL
  /\ corrimu_.pitch_rate = 0
  /\ \E m \in ImuOut :
       /\ m.angular_velocity = [x |-> 0, y |-> 0, z |-> 0]
       /\ m.angular_velocity_covariance[1] = COV_FIXED

\* ------------------------------------------------------------------------
\* C18
\* ------------------------------------------------------------------------

\* A cache that is set stays set.
C18_CachesStaySet ==
  /\ (inspva_ # NULL) => (inspva_' # NULL)
  /\ (corrimu_ # NULL) => (corrimu_' # NULL)
  /\ (insstdev_ # NULL) => (insstdev_' # NULL)

\* Once an INSPVA was handled, a CORRIMU arrival with the IMU channel enabled
\* publishes exactly one sensor_msgs::Imu message, whose orientation is a
\* unit quaternion (not the default); once a message with populated motion
\* fields was published, every published message has them populated.
C18_AvailabilityInv ==
  /\ (last.id \in CorrImuIds /\ enabled["IMU"] /\ seen.inspva # NULL) =>
       /\ Len(OutOn("IMU")) = 1
       /\ \A m \in ImuOut :
            m.orientation.x * m.orientation.x + m.orientation.y * m.orientation.y
            + m.orientation.z * m.orientation.z + m.orientation.w * m.orientation.w = 1
  /\ motionEmitted =>
       \A m \in ImuOut :
         /\ m.angular_velocity_covariance = Diag(COV_FIXED)
         /\ m.linear_acceleration_covariance = Diag(COV_FIXED)

\* C18: availability is monotone: caches never revert to unset; once an
\* INSPVA is cached every later CORRIMU arrival with the IMU channel enabled
\* publishes exactly one sensor_msgs::Imu message with orientation populated;
\* once one was published with populated motion fields, every later one has
\* populated motion fields.
C18_AvailabilityIsMonotone == [] C18_AvailabilityInv /\ [][ C18_CachesStaySet ]_vars

\* With the rate resolved from an INSCONFIG message and the second INSPVA
\* sample cached, a CORRIMU arrival published one message with orientation
\* and motion fields populated.
C18_Witness ==
  /\ motionEmitted
  /\ lookups = 1
  /\ last.id \in CorrImuIds
  /\ seen.inspva.roll = 180
  /\ Len(OutOn("IMU")) = 1
  /\ \E m \in ImuOut : /\ m.orientation = [x |-> 0, y |-> -1, z |-> 0, w |-> 0]
                         /\ m.angular_velocity_covariance = Diag(COV_FIXED)

====
